---- MODULE Spec2Model ----
(***************************************************************************)
(* Verification model of GnomeDDC's monitor/feature synchronisation code.  *)
(*                                                                         *)
(* The repository holds several implementations of the same engine:        *)
(*   - the "store" variant: client.py, monitor_store.py and the controls   *)
(*     of ui/capability_widgets.py and ui/main_window.py;                  *)
(*   - the "application" variant: application.py (service client with a    *)
(*     mock backend, MonitorStore, Throttle, MonitorDetail);               *)
(*   - the "manager" variant: monitor_manager.py with widgets/feature_row; *)
(*   - the command-line variant: app.py, ddcutil.py and worker.py.         *)
(* Each variant has its own variables and its own specification.           *)
(***************************************************************************)
EXTENDS Integers, Sequences, FiniteSets, TLC

\* ------------------------------------------------------------------------
\* Bounds of the model
\* ------------------------------------------------------------------------
NumEdids == 2          \* physical monitors the backend may report
MaxValue == 2          \* VCP values range over 0..MaxValue
TicksPerWindow == 3    \* clock ticks in one debounce window
MaxWrites == 3         \* slider changes followed in the command-line variant
MaxIdle == 2           \* callbacks waiting in the main loop of the manager variant

Edids == 1..NumEdids
Values == 0..MaxValue
CodeSeq == <<16, 18>>             \* 0x10 brightness, 0x12 contrast
Codes == {CodeSeq[i] : i \in 1..Len(CodeSeq)}
DisplayNumbers == {1, 2}

\* ------------------------------------------------------------------------
\* Python values
\* ------------------------------------------------------------------------
NoneInt == -1                     \* None where an int is expected
NoRec == [nil |-> TRUE]           \* None / missing dict key where an object is expected

Truthy(n) == n # NoneInt /\ n # 0

Min2(a, b) == IF a < b THEN a ELSE b
Max2(a, b) == IF a > b THEN a ELSE b

\* A signal emitted by a GObject: name and (display_number, code) arguments.
Sig(name, dn, code) == [name |-> name, dn |-> dn, code |-> code]
SigMonitorsChanged == Sig("monitors-changed", 0, 0)
SigError == Sig("error", 0, 0)
SigVcpUpdated(dn, code) == Sig("vcp-updated", dn, code)

VARIABLES
    \* ---- store variant (client.py, monitor_store.py) ----
    proxy,        \* DdcutilClient._proxy: "pending", "ready" or "failed"
    monitors,     \* MonitorStore._monitors: edid -> MonitorState or NoRec
    \* ---- a ContinuousControl of the store variant (ui/capability_widgets.py) ----
    ctl,          \* its VcpValue, slider, _pending_value and _debounce_id
    sinceReq,     \* time since the last _schedule_commit, capped at Window
    \* ---- application variant (application.py) ----
    appMock,      \* DdcutilServiceClient._mock
    appSubscribed,\* the D-Bus signals were subscribed to by _connect_proxy
    appMonitors,  \* MonitorStore.monitors: edid -> Monitor or NoRec
    appCurrent,   \* MonitorDetail.current_edid, 0 for None
    \* ---- command-line variant (app.py, worker.py, ddcutil.py) ----
    cliSlider,    \* value of the SliderRow scale
    cliCommitted, \* values handed to AsyncRunner.run, in order
    cliThread,    \* state of the thread of each of them
    cliIdle,      \* GLib.idle_add queue: threads whose callback is waiting
    cliReceived,  \* the writes the monitor received, in order (indices)
    cliBackend,   \* value of the feature in the monitor
    \* ---- manager variant (monitor_manager.py) ----
    mgrMonitors,  \* MonitorManager._monitors: edid -> MonitorInfo or NoRec
    mgrService,   \* _bus and _service_name are set
    mgrFuture,    \* _refresh_future: "none", "running" or "done"
    mgrIdle,      \* GLib.idle_add queue of the manager
    mgrSetName,   \* history: the candidate _call_set first succeeded with, 0 before
    \* ---- the connectors on their own (application.py, client.py,
    \*      monitor_manager.py helpers, ddcutil.py) ----
    mockState,    \* DdcutilServiceClient._mock_state: mock edid -> code -> VcpValue
    options,      \* _raw_values and _no_verify of a client
    connReply,    \* what the backend answered to the calls of the last helper
    connResult,   \* what the last connector call returned to its caller
    \* ---- what the last handler did ----
    detected,     \* store variant: the monitors of the Detect or ListDetected reply
                  \* the last handler got, edid -> display number (0: not listed)
    sig,          \* signals emitted during the last handler, in order
    calls,        \* set calls sent to the backend by the last handler: their values,
                  \* in the manager variant the candidate method names tried
    lastOp        \* the last handler that ran, with its inputs and outcome

storeVars == <<proxy, monitors>>
uiVars == <<ctl, sinceReq>>
appVars == <<appMock, appSubscribed, appMonitors, appCurrent>>
cliVars == <<cliSlider, cliCommitted, cliThread, cliIdle, cliReceived, cliBackend>>
mgrVars == <<mgrMonitors, mgrService, mgrFuture, mgrIdle, mgrSetName>>
vars == <<proxy, monitors, ctl, sinceReq, appMock, appSubscribed, appMonitors,
          appCurrent, cliSlider, cliCommitted, cliThread, cliIdle, cliReceived,
          cliBackend, mgrMonitors, mgrService, mgrFuture, mgrIdle, mgrSetName,
          mockState, options, connReply, connResult, detected, sig, calls, lastOp>>

\* No Detect or ListDetected reply: the handler made no such call, or it failed.
NoDetect == [e \in Edids |-> 0]

connVars == <<mockState, options, connReply, connResult>>

\* The variables of a variant that is not running.
NoControl == [alias |-> FALSE, value |-> NoRec, upper |-> 0, slider |-> 0,
              pending |-> NoneInt, debounce |-> NoneInt]
NoStore == proxy = "failed" /\ monitors = <<>>
NoUI == ctl = NoControl /\ sinceReq = 0
NoApp == /\ appMock = FALSE /\ appSubscribed = FALSE
         /\ appMonitors = <<>> /\ appCurrent = 0

NoCli == /\ cliSlider = 0 /\ cliCommitted = <<>> /\ cliThread = <<>>
         /\ cliIdle = <<>> /\ cliReceived = <<>> /\ cliBackend = 0
NoMgr == /\ mgrMonitors = <<>> /\ mgrService = FALSE
         /\ mgrFuture = "none" /\ mgrIdle = <<>> /\ mgrSetName = 0

NoConn == /\ mockState = <<>> /\ options = NoRec
          /\ connReply = NoRec /\ connResult = NoRec

\* What the handlers of one variant leave alone.
outsideStore == <<uiVars, appVars, cliVars, mgrVars, connVars>>
outsideUI == <<appVars, cliVars, mgrVars, connVars, detected>>
outsideApp == <<storeVars, uiVars, cliVars, mgrVars, connVars, calls, detected>>
outsideCli == <<storeVars, uiVars, appVars, mgrVars, connVars, detected>>
outsideMgr == <<storeVars, uiVars, appVars, cliVars, connVars, detected>>
outsideConn == <<storeVars, uiVars, appVars, cliVars, mgrVars, detected>>

\* ========================================================================
\* Store variant: client.py and monitor_store.py
\* ========================================================================

\* client.py MonitorDescriptor / monitor_store.py MonitorState and VcpValue.
\* obj is the identity of the MonitorState object among the objects created
\* for the same edid.
VcpValue(current, maximum) == [current |-> current, maximum |-> maximum]
VcpMetadata(maximum) == [maximum |-> maximum]
NoCaps == [c \in Codes |-> NoRec]
NoValues == [c \in Codes |-> NoRec]
MonitorState(obj, edid, dn) ==
    [obj |-> obj, edid |-> edid, dn |-> dn, caps |-> NoCaps, values |-> NoValues]

\* The monitors of the model: the odd ones support the features of CodeSeq,
\* the even ones are displays without VCP features. The first feature has a
\* maximum in its metadata, the others have none.
FeatureCodes(e) == IF e % 2 = 1 THEN Codes ELSE {}
MetadataOf(c) == IF c = CodeSeq[1] THEN VcpMetadata(MaxValue) ELSE VcpMetadata(NoneInt)
Capabilities(e) == [c \in Codes |-> IF c \in FeatureCodes(e) THEN MetadataOf(c) ELSE NoRec]

\* Replies the backend may give. Display numbers of distinct monitors differ.
DetectReplies ==
    {det \in [ok : BOOLEAN, mons : [Edids -> DisplayNumbers \cup {0}]] :
        /\ \A e, f \in Edids : (e # f /\ det.mons[e] # 0) => det.mons[e] # det.mons[f]
        /\ ~det.ok => \A e \in Edids : det.mons[e] = 0}
DefaultCaps == [ok |-> FALSE, caps |-> NoCaps]
CapsReplies(e) == {DefaultCaps, [ok |-> TRUE, caps |-> Capabilities(e)]}
DefaultVals == [ok |-> FALSE, vals |-> NoValues]
ValsReplies(e) ==
    {DefaultVals} \cup
    {[ok |-> TRUE, vals |-> f] :
        f \in {g \in [Codes -> {NoRec} \cup {VcpValue(v, MaxValue) : v \in Values}] :
                 \A c \in Codes : g[c] # NoRec <=> c \in FeatureCodes(e)}}

\* DdcutilClient._call_sync raises unless the proxy is bound: a call can only
\* succeed through a ready proxy.
CallSync(ok) == ok => proxy = "ready"

CapKeys(caps) == {c \in Codes : caps[c] # NoRec}
Reported(det) == {e \in Edids : det.mons[e] # 0}
Known(m) == {e \in Edids : m[e] # NoRec}

\* The signals of refresh_vcp_values: one vcp-updated per returned code.
VcpUpdatedSignals(dn, vals) ==
    LET present == SelectSeq(CodeSeq, LAMBDA c : vals[c] # NoRec)
    IN [i \in 1..Len(present) |-> SigVcpUpdated(dn, present[i])]

\* MonitorStore.refresh_vcp_values(state, codes) with the backend's reply.
\* Returns the state and the signals emitted.
refresh_vcp_values(st, reply) ==
    IF ~reply.ok
    THEN [st |-> st, sig |-> <<SigError>>]
    ELSE [st |-> [st EXCEPT !.values =
                     [c \in Codes |-> IF reply.vals[c] # NoRec
                                      THEN reply.vals[c] ELSE st.values[c]]],
          sig |-> VcpUpdatedSignals(st.dn, reply.vals)]

\* A call of the client that names one monitor; ok: it did not raise.
ClientCallFor(method, edid, ok) == [method |-> method, edid |-> edid, ok |-> ok]

\* Variant that swallows the failure of the capability fetch.
load_capabilities_Silent(st, capsReply, valsReply) ==
    [st |-> [st EXCEPT !.caps = NoCaps], sig |-> <<>>,
     calls |-> <<ClientCallFor("get_capabilities_metadata", st.edid, capsReply.ok)>>]

\* MonitorStore._load_capabilities(state); calls are the client calls made.
load_capabilities(st, capsReply, valsReply) ==
    LET failed == ~capsReply.ok
        caps == IF failed THEN NoCaps ELSE capsReply.caps
        st1 == [st EXCEPT !.caps = caps]
        r == IF CapKeys(caps) # {} THEN refresh_vcp_values(st1, valsReply)
             ELSE [st |-> st1, sig |-> <<>>]
    IN [st |-> r.st, sig |-> (IF failed THEN <<SigError>> ELSE <<>>) \o r.sig,
        calls |-> <<ClientCallFor("get_capabilities_metadata", st.edid, ~failed)>> \o
                  (IF CapKeys(caps) # {}
                   THEN <<ClientCallFor("get_multiple_vcp", st.edid, valsReply.ok)>>
                   ELSE <<>>)]

\* "state.descriptor = monitor": the state takes the edid and the display
\* number of the monitor of the reply.
ReplaceDescriptor(st, edid, dn) == [st EXCEPT !.edid = edid, !.dn = dn]

\* Variant that emits monitors-changed for every detected monitor.
RefreshOne_Notifies(m, e, dn, capsReply, valsReply) ==
    IF m[e] # NoRec
    THEN [st |-> ReplaceDescriptor(m[e], e, dn), sig |-> <<SigMonitorsChanged>>,
          calls |-> <<>>]
    ELSE LET r == load_capabilities(MonitorState(0, e, dn), capsReply, valsReply)
         IN [st |-> r.st, sig |-> r.sig \o <<SigMonitorsChanged>>, calls |-> r.calls]

\* Variant that loads the capabilities of every detected monitor again.
RefreshOne_Reloads(m, e, dn, capsReply, valsReply) ==
    load_capabilities(IF m[e] # NoRec THEN ReplaceDescriptor(m[e], e, dn)
                      ELSE MonitorState(0, e, dn), capsReply, valsReply)

\* One iteration of the loop of MonitorStore.refresh for a detected monitor.
RefreshOne(m, e, dn, capsReply, valsReply) ==
    IF m[e] # NoRec
    THEN [st |-> ReplaceDescriptor(m[e], e, dn), sig |-> <<>>, calls |-> <<>>]
    ELSE load_capabilities(MonitorState(0, e, dn), capsReply, valsReply)

\* The signals of the loop, in the order the monitors are detected.
RECURSIVE RefreshSignals(_, _, _, _, _)
RefreshSignals(m, det, caps, vals, e) ==
    IF e > NumEdids THEN <<>>
    ELSE (IF det.mons[e] # 0
          THEN RefreshOne(m, e, det.mons[e], caps[e], vals[e]).sig ELSE <<>>)
         \o RefreshSignals(m, det, caps, vals, e + 1)

\* The calls of the loop that name a monitor, in the order they are made.
RECURSIVE RefreshCalls(_, _, _, _, _)
RefreshCalls(m, det, caps, vals, e) ==
    IF e > NumEdids THEN <<>>
    ELSE (IF det.mons[e] # 0
          THEN RefreshOne(m, e, det.mons[e], caps[e], vals[e]).calls ELSE <<>>)
         \o RefreshCalls(m, det, caps, vals, e + 1)

\* Variant that keeps the monitors the reply does not list.
refresh_KeepsAbsent(m, det, caps, vals) ==
    IF ~det.ok
    THEN [monitors |-> m, sig |-> <<SigError>>]
    ELSE [monitors |-> [e \in Edids |->
                          IF det.mons[e] # 0
                          THEN RefreshOne(m, e, det.mons[e], caps[e], vals[e]).st
                          ELSE m[e]],
          sig |-> RefreshSignals(m, det, caps, vals, 1) \o <<SigMonitorsChanged>>]

\* MonitorStore.refresh: the new value of _monitors and the signals emitted.
refresh(m, det, caps, vals) ==
    IF ~det.ok
    THEN [monitors |-> m, sig |-> <<SigError>>]
    ELSE [monitors |-> [e \in Edids |->
                          IF det.mons[e] # 0
                          THEN RefreshOne(m, e, det.mons[e], caps[e], vals[e]).st
                          ELSE NoRec],
          sig |-> RefreshSignals(m, det, caps, vals, 1) \o <<SigMonitorsChanged>>]

\* Variant that looks the stored state up by display number.
refresh_fast_ByDisplay(m, det) ==
    IF ~det.ok
    THEN [monitors |-> m, sig |-> <<>>]
    ELSE [monitors |-> [e \in Edids |->
                          IF m[e] # NoRec /\ \E f \in Edids : det.mons[f] = m[e].dn
                          THEN ReplaceDescriptor(m[e],
                                   CHOOSE f \in Edids : det.mons[f] = m[e].dn, m[e].dn)
                          ELSE m[e]],
          sig |-> <<SigMonitorsChanged>>]

\* MonitorStore.refresh_fast: the monitors of the reply are looked up by edid.
refresh_fast(m, det) ==
    IF ~det.ok
    THEN [monitors |-> m, sig |-> <<>>]
    ELSE [monitors |-> [e \in Edids |->
                          IF det.mons[e] # 0 /\ m[e] # NoRec
                          THEN ReplaceDescriptor(m[e], e, det.mons[e])
                          ELSE m[e]],
          sig |-> <<SigMonitorsChanged>>]

\* Variant that takes the pushed value as the maximum.
KeptMaximum_Pushed(st, code, value) == value

\* The maximum kept by _on_vcp_signal and set_vcp_value.
KeptMaximum(st, code, value) ==
    LET current == st.values[code]
        metadata == st.caps[code]
    IN IF current # NoRec THEN current.maximum
       ELSE IF metadata # NoRec /\ Truthy(metadata.maximum) THEN metadata.maximum
       ELSE value

\* Variant without the early return for an unknown edid.
on_vcp_signal_NoReturn(m, dn, edid, code, value) ==
    [monitors |-> IF m[edid] = NoRec THEN m
                  ELSE [m EXCEPT ![edid].values[code] =
                          VcpValue(value, KeptMaximum(m[edid], code, value))],
     sig |-> <<SigVcpUpdated(dn, code)>>]

\* MonitorStore._on_vcp_signal.
on_vcp_signal(m, dn, edid, code, value) ==
    IF m[edid] = NoRec
    THEN [monitors |-> m, sig |-> <<>>]
    ELSE [monitors |-> [m EXCEPT ![edid].values[code] =
                          VcpValue(value, KeptMaximum(m[edid], code, value))],
          sig |-> <<SigVcpUpdated(dn, code)>>]

\* MonitorStore.set_vcp_value on a MonitorState held by the store.
set_vcp_value(m, edid, code, value, ok) ==
    IF ~ok
    THEN [monitors |-> m, sig |-> <<SigError>>]
    ELSE [monitors |-> [m EXCEPT ![edid].values[code] =
                          VcpValue(value, KeptMaximum(m[edid], code, value))],
          sig |-> <<SigVcpUpdated(m[edid].dn, code)>>]

\* ------------------------------------------------------------------------
\* Handlers of the store variant
\* ------------------------------------------------------------------------
Op(op, ok, edid, code, value) ==
    [op |-> op, ok |-> ok, edid |-> edid, code |-> code, value |-> value]

\* The replies to the calls a refresh makes for one monitor: it asks for the
\* capabilities of a monitor it sees for the first time, and for the values
\* of the codes of those capabilities when there are any.
RepliesFor(m, det, e) ==
    IF m[e] # NoRec \/ det.mons[e] = 0
    THEN {[caps |-> DefaultCaps, vals |-> DefaultVals]}
    ELSE {r \in [caps : CapsReplies(e), vals : ValsReplies(e)] :
            CapKeys(r.caps.caps) = {} => r.vals = DefaultVals}

RECURSIVE AllReplies(_, _, _)
AllReplies(m, det, n) ==
    IF n = 0 THEN {<<>>}
    ELSE {Append(s, r) : s \in AllReplies(m, det, n - 1), r \in RepliesFor(m, det, n)}

\* MonitorStore.refresh with the replies of the calls it makes.
DoRefresh ==
    \E det \in DetectReplies : \E rep \in AllReplies(monitors, det, NumEdids) :
        LET r == refresh(monitors, det, [e \in Edids |-> rep[e].caps],
                         [e \in Edids |-> rep[e].vals])
        IN /\ CallSync(det.ok)'
           /\ monitors' = r.monitors
           /\ sig' = r.sig
           /\ detected' = det.mons
           /\ calls' = IF det.ok
                       THEN RefreshCalls(monitors, det, [e \in Edids |-> rep[e].caps],
                                         [e \in Edids |-> rep[e].vals], 1)
                       ELSE <<>>
           /\ lastOp' = Op("refresh", det.ok, 0, 0, 0)

\* client.py _on_proxy_ready: the proxy is bound and "service-initialized" is
\* emitted, which MonitorStore._on_service_initialized answers with refresh().
ProxyReady ==
    /\ UNCHANGED outsideStore
    /\ proxy = "pending"
    /\ proxy' = "ready"
    /\ DoRefresh

\* client.py _on_proxy_ready, the GLib.Error branch: "service-error".
ProxyFailed ==
    /\ UNCHANGED outsideStore
    /\ proxy = "pending"
    /\ proxy' = "failed"
    /\ sig' = <<>>
    /\ lastOp' = Op("service-error", FALSE, 0, 0, 0)
    /\ detected' = NoDetect
    /\ calls' = <<>>
    /\ UNCHANGED monitors

\* D-Bus signal ServiceInitialized -> MonitorStore._on_service_initialized.
ServiceInitialized ==
    /\ UNCHANGED outsideStore
    /\ proxy = "ready"
    /\ UNCHANGED proxy
    /\ DoRefresh

\* D-Bus signal ConnectedDisplaysChanged -> MonitorStore._on_displays_changed.
DisplaysChanged ==
    /\ UNCHANGED outsideStore
    /\ proxy = "ready"
    /\ UNCHANGED proxy
    /\ \E event_type \in {0, 1} :
         IF event_type = 0
         THEN \E det \in DetectReplies :
                LET r == refresh_fast(monitors, det)
                IN /\ monitors' = r.monitors
                   /\ sig' = r.sig
                   /\ detected' = det.mons
                   /\ calls' = <<>>
                   /\ lastOp' = Op("refresh_fast", det.ok, 0, 0, 0)
         ELSE DoRefresh

\* ui/main_window.py MainWindow._on_rescan_clicked -> MonitorStore.refresh.
Rescan ==
    /\ UNCHANGED outsideStore
    /\ UNCHANGED proxy
    /\ DoRefresh

\* D-Bus signal VcpValueChanged -> MonitorStore._on_vcp_signal.
VcpSignal ==
    /\ UNCHANGED outsideStore
    /\ proxy = "ready"
    /\ \E dn \in DisplayNumbers, edid \in Edids, value \in Values :
       \E code \in FeatureCodes(edid) :
         LET r == on_vcp_signal(monitors, dn, edid, code, value)
         IN /\ monitors' = r.monitors
            /\ sig' = r.sig
            /\ lastOp' = Op("vcp_signal", TRUE, edid, code, value)
    /\ detected' = NoDetect
    /\ calls' = <<>>
    /\ UNCHANGED proxy

\* ui/capability_widgets.py ContinuousControl._commit_value and
\* EnumeratedControl._on_selected, for a control of a monitor the store holds:
\* set_vcp_value, then "self.value.current = value" on the control's VcpValue,
\* which is the store's own object (aliased) until the store replaces it.
CommitValue ==
    /\ UNCHANGED outsideStore
    /\ \E edid \in Known(monitors), code \in Codes, value \in Values,
          ok \in BOOLEAN, aliased \in BOOLEAN :
         /\ CallSync(ok)
         /\ monitors[edid].values[code] # NoRec
         /\ aliased => value # monitors[edid].values[code].current
         /\ LET r == set_vcp_value(monitors, edid, code, value, ok)
            IN /\ monitors' = IF aliased /\ ~ok
                              THEN [r.monitors EXCEPT ![edid].values[code].current = value]
                              ELSE r.monitors
               /\ sig' = r.sig
               /\ calls' = <<ClientCallFor("set_vcp_with_context", edid, ok)>>
               /\ lastOp' = Op("set_vcp_value", ok, edid, code, value)
    /\ detected' = NoDetect
    /\ UNCHANGED proxy

InitStore ==
    /\ proxy = "pending"
    /\ monitors = [e \in Edids |-> NoRec]
    /\ NoUI
    /\ NoApp
    /\ NoCli
    /\ NoMgr
    /\ NoConn
    /\ calls = <<>>
    /\ detected = NoDetect
    /\ sig = <<>>
    /\ lastOp = Op("init", TRUE, 0, 0, 0)

NextStore ==
    \/ ProxyReady
    \/ ProxyFailed
    \/ ServiceInitialized
    \/ DisplaysChanged
    \/ Rescan
    \/ VcpSignal
    \/ CommitValue

SpecStore == InitStore /\ [][NextStore]_vars

\* ------------------------------------------------------------------------
\* Properties of the store variant
\* ------------------------------------------------------------------------

\* C3: a VcpValueChanged push for an edid and a feature code the store holds
\* a value for changes only that value's current: the maximum, the other
\* features and the other monitors stay as they were, exactly one vcp-updated
\* signal (for that code) is emitted and no monitors-changed signal.
C3_PushChangesOnlyCurrent ==
    [][(/\ lastOp'.op = "vcp_signal"
        /\ monitors[lastOp'.edid] # NoRec
        /\ monitors[lastOp'.edid].values[lastOp'.code] # NoRec)
       => /\ monitors' = [monitors EXCEPT
                 ![lastOp'.edid].values[lastOp'.code].current = lastOp'.value]
          /\ Len(sig') = 1
          /\ sig'[1].name = "vcp-updated"
          /\ sig'[1].code = lastOp'.code]_vars

\* A push has just been applied to a feature whose value was already known
\* (without a maximum in the metadata, a first value would take the pushed
\* value as its maximum), while another monitor is in the store.
C3_Witness ==
    /\ lastOp.op = "vcp_signal"
    /\ lastOp.code = CodeSeq[2]
    /\ monitors[lastOp.edid] # NoRec
    /\ monitors[lastOp.edid].values[lastOp.code].current = lastOp.value
    /\ monitors[lastOp.edid].values[lastOp.code].maximum # lastOp.value
    /\ \E f \in Edids : f # lastOp.edid /\ monitors[f] # NoRec
    /\ sig = <<SigVcpUpdated(sig[1].dn, lastOp.code)>>

\* C4: a VcpValueChanged push whose edid is not in the store is a no-op: the
\* store is unchanged, no signal of any kind is emitted, no error is raised.
C4_PushUnknownEdidNoOp ==
    [][(lastOp'.op = "vcp_signal" /\ monitors[lastOp'.edid] = NoRec)
       => /\ monitors' = monitors
          /\ sig' = <<>>
          /\ lastOp'.ok
          /\ proxy' = proxy]_vars

\* A push has just arrived for an edid that is not in the store, while
\* another monitor is.
C4_Witness ==
    /\ lastOp.op = "vcp_signal"
    /\ monitors[lastOp.edid] = NoRec
    /\ \E f \in Edids : monitors[f] # NoRec
    /\ sig = <<>>

\* C10: every failed backend call of a refresh, push or write handler of the
\* store is answered with an error signal.
C10_FailureEmitsError ==
    [][(lastOp'.op \in {"refresh", "refresh_fast", "vcp_signal", "set_vcp_value"}
        /\ ~lastOp'.ok)
       => \E i \in 1..Len(sig') : sig'[i] = SigError]_vars

\* C15: after a successful full refresh the edids of the store are exactly the
\* edids of the Detect reply: absent ones are removed, new ones are added.
C15_StoreMatchesDetection ==
    [][(lastOp'.op = "refresh" /\ lastOp'.ok)
       => Known(monitors') = {e \in Edids : detected'[e] # 0}]_vars

\* A successful full refresh has just run whose reply lists one monitor and
\* not the other.
C15_Witness ==
    /\ lastOp.op = "refresh"
    /\ lastOp.ok
    /\ \E e, f \in Edids : detected[e] # 0 /\ detected[f] = 0
    /\ Known(monitors) = {e \in Edids : detected[e] # 0}

\* C16: a successful full refresh emits exactly one monitors-changed signal,
\* and emits it last, after the monitors of the reply were added, updated and
\* removed.
C16_OneMonitorsChangedLast ==
    [][(lastOp'.op = "refresh" /\ lastOp'.ok)
       => /\ Cardinality({i \in 1..Len(sig') : sig'[i] = SigMonitorsChanged}) = 1
          /\ sig'[Len(sig')] = SigMonitorsChanged]_vars

\* A successful full refresh has just added a monitor whose values were read
\* (vcp-updated signals before the monitors-changed) next to another one.
C16_Witness ==
    /\ lastOp.op = "refresh"
    /\ lastOp.ok
    /\ Known(monitors) = Edids
    /\ Len(sig) > 2
    /\ sig[1].name = "vcp-updated"
    /\ sig[Len(sig)] = SigMonitorsChanged

\* C18: every feature code with a value in a MonitorState also has an entry
\* in its capabilities.
C18_ValueKeysInCapabilities ==
    \A e \in Edids :
        monitors[e] # NoRec
           => \A c \in Codes : monitors[e].values[c] # NoRec => monitors[e].caps[c] # NoRec

\* C19: every stored value has 0 <= current <= maximum.
C19_CurrentWithinRange ==
    \A e \in Edids :
        monitors[e] # NoRec
           => \A c \in Codes :
                monitors[e].values[c] # NoRec
                   => /\ 0 <= monitors[e].values[c].current
                      /\ monitors[e].values[c].current <= monitors[e].values[c].maximum

\* C20: a MonitorState is stored under the edid of its descriptor, and a
\* refresh that replaces the descriptor keeps that edid.
C20_EdidNeverChanges ==
    [][\A e \in Edids :
         monitors'[e] # NoRec
            => /\ monitors'[e].edid = e
               /\ monitors[e] # NoRec => monitors'[e].edid = monitors[e].edid]_vars

\* A light refresh has just replaced the descriptor of a stored monitor by
\* the one of its reply.
C20_Witness ==
    /\ lastOp.op = "refresh_fast"
    /\ lastOp.ok
    /\ \E e \in Edids :
         /\ monitors[e] # NoRec
         /\ detected[e] # 0
         /\ monitors[e].dn = detected[e]
         /\ monitors[e].edid = e

\* C32: a successful full refresh asks for capabilities and values only for
\* the monitors whose edid was not in the store; a monitor that was known gets
\* the descriptor of the reply and nothing else: no call names it, and its
\* capabilities, its values and its object are the ones it had.
C32_KnownMonitorsNotFetched ==
    [][(lastOp'.op = "refresh" /\ lastOp'.ok)
       => /\ \A i \in 1..Len(calls') : monitors[calls'[i].edid] = NoRec
          /\ \A e \in Edids :
               (monitors[e] = NoRec /\ detected'[e] # 0)
                  => \E i \in 1..Len(calls') :
                       /\ calls'[i].method = "get_capabilities_metadata"
                       /\ calls'[i].edid = e
          /\ \A e \in Edids :
               (monitors[e] # NoRec /\ detected'[e] # 0)
                  => /\ monitors'[e].dn = detected'[e]
                     /\ monitors'[e].caps = monitors[e].caps
                     /\ monitors'[e].values = monitors[e].values
                     /\ monitors'[e].obj = monitors[e].obj]_vars

\* A full refresh has just fetched capabilities and values for one monitor
\* and made no call for another one it lists, which holds values: that one
\* was in the store before.
C32_Witness ==
    /\ lastOp.op = "refresh"
    /\ lastOp.ok
    /\ \E e, f \in Edids :
         /\ monitors[e] # NoRec
         /\ \E c \in Codes : monitors[e].values[c] # NoRec
         /\ \A i \in 1..Len(calls) : calls[i].edid # e
         /\ monitors[f] # NoRec
         /\ \E i \in 1..Len(calls) : calls[i].edid = f

\* C33: when the detection of a full refresh succeeds and the capability
\* fetch of a monitor seen for the first time fails, the monitor is in the
\* store afterwards with empty capabilities and values, and an error signal
\* is emitted.
C33_FailedCapabilitiesStillListed ==
    [][(lastOp'.op = "refresh" /\ lastOp'.ok)
       => \A i \in 1..Len(calls') :
            (calls'[i].method = "get_capabilities_metadata" /\ ~calls'[i].ok)
               => /\ monitors'[calls'[i].edid] # NoRec
                  /\ monitors'[calls'[i].edid].caps = NoCaps
                  /\ monitors'[calls'[i].edid].values = NoValues
                  /\ \E j \in 1..Len(sig') : sig'[j] = SigError
                  /\ sig'[Len(sig')] = SigMonitorsChanged]_vars

\* A full refresh has just added a monitor whose capability fetch failed.
C33_Witness ==
    /\ lastOp.op = "refresh"
    /\ lastOp.ok
    /\ \E i \in 1..Len(calls) :
         /\ calls[i].method = "get_capabilities_metadata"
         /\ ~calls[i].ok
         /\ monitors[calls[i].edid] # NoRec
         /\ monitors[calls[i].edid].caps = NoCaps
    /\ \E j \in 1..Len(sig) : sig[j] = SigError

\* ========================================================================
\* Store variant, one ContinuousControl: ui/capability_widgets.py and the
\* MonitorPage of ui/main_window.py that owns it
\* ========================================================================
Window == 150                     \* GLib.timeout_add(150, _on_timeout)
TickStep == Window \div TicksPerWindow

\* The monitor and the feature of the control.
UiEdid == CHOOSE e \in Edids : FeatureCodes(e) # {}
UiCode == CodeSeq[1]

Clamp(x, lower, upper) == Min2(Max2(x, lower), upper)

\* The VcpValue the control holds in self.value: the store's own object until
\* the store replaces state.values[code] with a new one.
ControlValue(c, m) == IF c.alias THEN m[UiEdid].values[UiCode] ELSE c.value
Detach(c, m) ==
    IF c.alias THEN [c EXCEPT !.alias = FALSE, !.value = m[UiEdid].values[UiCode]] ELSE c

\* ContinuousControl.__init__ as called by MonitorPage._rebuild_controls.
build_control(m) ==
    LET value == m[UiEdid].values[UiCode]
        upper == IF Truthy(value.maximum) THEN value.maximum ELSE 100
    IN [alias |-> TRUE, value |-> NoRec, upper |-> upper,
        slider |-> Clamp(value.current, 0, upper),
        pending |-> NoneInt, debounce |-> NoneInt]

\* ContinuousControl._schedule_commit: a running timer is left as it is.
schedule_commit(c, value) ==
    [c EXCEPT !.pending = value,
              !.debounce = IF c.debounce # NoneInt THEN c.debounce ELSE 0]

\* Variant in which moving the slider does not reach _schedule_commit.
update_value_Quiet(c, current, maximum) ==
    [c EXCEPT !.value = VcpValue(current, IF maximum # NoneInt THEN maximum
                                          ELSE c.value.maximum),
              !.slider = Clamp(current, 0, c.upper)]

\* ContinuousControl.update_value on a control whose VcpValue is its own;
\* moving the slider emits value-changed, which _on_slider_changed answers
\* with _schedule_commit.
update_value(c, current, maximum) ==
    LET c1 == [c EXCEPT !.value = VcpValue(current,
                                     IF maximum # NoneInt THEN maximum ELSE c.value.maximum)]
        moved == Clamp(current, 0, c.upper)
    IN IF c.slider # current /\ moved # c.slider
       THEN schedule_commit([c1 EXCEPT !.slider = moved], moved)
       ELSE c1

\* The user moves the slider (change-value, value-changed) or edits the entry.
UserRequest ==
    /\ UNCHANGED outsideUI
    /\ monitors[UiEdid] # NoRec
    /\ \E v \in Values :
         /\ v <= ctl.upper
         /\ ctl' = schedule_commit([ctl EXCEPT !.slider = v], v)
         /\ lastOp' = Op("request", TRUE, UiEdid, UiCode, v)
    /\ sinceReq' = 0
    /\ sig' = <<>>
    /\ calls' = <<>>
    /\ UNCHANGED storeVars

\* Time passes; a due timer is dispatched before more time passes.
Tick ==
    /\ UNCHANGED outsideUI
    /\ ctl.debounce # NoneInt \/ sinceReq < Window
    /\ ctl.debounce # NoneInt => ctl.debounce < Window
    /\ ctl' = [ctl EXCEPT !.debounce =
                 IF @ = NoneInt THEN @ ELSE Min2(@ + TickStep, Window)]
    /\ sinceReq' = Min2(sinceReq + TickStep, Window)
    /\ sig' = <<>>
    /\ calls' = <<>>
    /\ lastOp' = Op("tick", TRUE, 0, 0, 0)
    /\ UNCHANGED storeVars

\* _on_timeout of _schedule_commit -> _commit_value(_pending_value).
Timeout ==
    /\ UNCHANGED outsideUI
    /\ ctl.debounce # NoneInt
    /\ ctl.debounce >= Window
    /\ LET value == ctl.pending
           idle == [pending |-> NoneInt, debounce |-> NoneInt]
       IN IF value = ControlValue(ctl, monitors).current
          THEN /\ ctl' = [ctl EXCEPT !.pending = NoneInt, !.debounce = NoneInt]
               /\ sig' = <<>>
               /\ calls' = <<>>
               /\ lastOp' = Op("timeout", TRUE, UiEdid, UiCode, value)
               /\ UNCHANGED <<storeVars, sinceReq>>
          ELSE \E ok \in BOOLEAN :
               LET r == set_vcp_value(monitors, UiEdid, UiCode, value, ok)
                   new == r.monitors[UiEdid].values[UiCode]
                   \* vcp-updated -> MonitorPage._on_vcp_updated -> update_value
                   c1 == IF ok THEN update_value(Detach(ctl, monitors), new.current, new.maximum)
                         ELSE ctl
                   \* self.value.current = value
                   c2 == IF c1.alias THEN c1 ELSE [c1 EXCEPT !.value.current = value]
               IN /\ CallSync(ok)
                  /\ monitors' = IF c1.alias
                                 THEN [r.monitors EXCEPT ![UiEdid].values[UiCode].current = value]
                                 ELSE r.monitors
                  /\ ctl' = [c2 EXCEPT !.pending = NoneInt, !.debounce = NoneInt]
                  /\ sinceReq' = IF c1.slider # ctl.slider THEN 0 ELSE sinceReq
                  /\ sig' = r.sig
                  /\ calls' = <<value>>
                  /\ lastOp' = Op("timeout", ok, UiEdid, UiCode, value)
                  /\ UNCHANGED proxy

\* The Reset button: _on_reset_clicked with on_reset unset, as
\* build_control_for_value creates the control.  default_value is
\* metadata.default_value (NoneInt: None); lastOp.value records it.
ResetClicked ==
    /\ UNCHANGED outsideUI
    /\ monitors[UiEdid] # NoRec
    /\ \E default_value \in {NoneInt} \cup Values, ok \in BOOLEAN :
         LET own == ControlValue(ctl, monitors)
             value == IF default_value # NoneInt THEN default_value
                      ELSE IF Truthy(own.maximum) THEN own.maximum \div 2
                      ELSE own.current
             r == set_vcp_value(monitors, UiEdid, UiCode, value, ok)
             new == r.monitors[UiEdid].values[UiCode]
             \* vcp-updated -> MonitorPage._on_vcp_updated -> update_value
             c1 == IF ok THEN update_value(Detach(ctl, monitors), new.current, new.maximum)
                   ELSE ctl
         IN /\ CallSync(ok)
            /\ monitors' = r.monitors
            /\ ctl' = c1
            /\ sinceReq' = IF c1.slider # ctl.slider THEN 0 ELSE sinceReq
            /\ sig' = r.sig
            /\ calls' = <<value>>
            /\ lastOp' = Op("reset", ok, UiEdid, UiCode, default_value)
    /\ UNCHANGED proxy

\* D-Bus signal VcpValueChanged for the control's feature: _on_vcp_signal,
\* then MonitorPage._on_vcp_updated for the vcp-updated it emits.
UiVcpSignal ==
    /\ UNCHANGED outsideUI
    /\ monitors[UiEdid] # NoRec
    /\ \E dn \in DisplayNumbers, value \in Values :
         LET r == on_vcp_signal(monitors, dn, UiEdid, UiCode, value)
             new == r.monitors[UiEdid].values[UiCode]
             c0 == Detach(ctl, monitors)
             c1 == IF monitors[UiEdid].dn # dn THEN c0
                   ELSE update_value(c0, new.current, new.maximum)
         IN /\ monitors' = r.monitors
            /\ ctl' = c1
            /\ sinceReq' = IF c1.slider # ctl.slider THEN 0 ELSE sinceReq
            /\ sig' = r.sig
            /\ lastOp' = Op("vcp_signal", TRUE, UiEdid, UiCode, value)
    /\ calls' = <<>>
    /\ UNCHANGED proxy

\* The page as MainWindow._build_sidebar creates it after the first refresh.
InitUI ==
    /\ proxy = "ready"
    /\ \E det \in DetectReplies :
         \E rep \in AllReplies([e \in Edids |-> NoRec], det, NumEdids) :
            /\ det.ok /\ det.mons[UiEdid] # 0
            /\ rep[UiEdid].caps.ok /\ rep[UiEdid].vals.ok
            /\ monitors = refresh([e \in Edids |-> NoRec], det,
                                  [e \in Edids |-> rep[e].caps],
                                  [e \in Edids |-> rep[e].vals]).monitors
    /\ ctl = build_control(monitors)
    /\ sinceReq = Window
    /\ NoApp
    /\ NoCli
    /\ NoMgr
    /\ sig = <<>>
    /\ NoConn
    /\ calls = <<>>
    /\ detected = NoDetect
    /\ lastOp = Op("init", TRUE, 0, 0, 0)

NextUI ==
    \/ UserRequest
    \/ Tick
    \/ Timeout
    \/ ResetClicked
    \/ UiVcpSignal

SpecUI == InitUI /\ [][NextUI]_vars

\* ------------------------------------------------------------------------
\* Properties of the control
\* ------------------------------------------------------------------------

\* C5: when the settling window of the control ends, the requests made in it
\* having left vn in _pending_value, and vn differs from the store's current
\* value of the feature, exactly one set call is sent and it carries vn.
C5_OneWriteCarriesLast ==
    [][(/\ lastOp'.op = "timeout"
        /\ ctl.pending # monitors[UiEdid].values[UiCode].current)
       => calls' = <<ctl.pending>>]_vars

\* C6: every request restarts the settling window: a set call is sent only
\* when a full window has passed since the last request.
C6_WriteAfterFullQuietWindow ==
    [][(lastOp'.op = "timeout" /\ calls' # <<>>) => sinceReq >= Window]_vars

\* C7: when the set call of a settled write fails, an error is emitted and
\* the store's current value of the feature is the requested value.
C7_FailedWriteKeepsRequested ==
    [][(lastOp'.op = "timeout" /\ ~lastOp'.ok)
       => /\ \E i \in 1..Len(sig') : sig'[i] = SigError
          /\ monitors'[UiEdid].values[UiCode].current = lastOp'.value]_vars

\* C27: a click on Reset sends exactly one set call at once, whatever the
\* state of the settling timer, and starts no timer; the call carries the
\* default value of the feature, or the midpoint of its range 0..maximum when
\* no default is known.
C27_ResetWritesDefaultAtOnce ==
    [][lastOp'.op = "reset"
       => LET own == ControlValue(ctl, monitors)
          IN /\ Len(calls') = 1
             /\ calls'[1] = IF lastOp'.value # NoneInt THEN lastOp'.value
                            ELSE Max2(own.maximum, 0) \div 2
             /\ ctl.debounce = NoneInt => ctl'.debounce = NoneInt]_vars

\* C31: when the settling timer fires while the pending value equals the
\* store's current value of the feature, no set call is sent: a set call at
\* expiry means that the pending value differs from the store's value.
C31_NoWriteWhenPendingIsCurrent ==
    [][(/\ lastOp'.op = "timeout"
        /\ ctl.pending = monitors[UiEdid].values[UiCode].current)
       => calls' = <<>>]_vars

\* C37: a value the user has just requested stays pending when a pushed
\* value arrives during its settling window: only a later request of the user
\* replaces it.
C37_PushKeepsPendingRequest ==
    [][(lastOp.op = "request" /\ lastOp'.op = "vcp_signal")
       => (ctl'.pending = ctl.pending /\ ctl'.debounce = ctl.debounce)]_vars

NumMock == 3                      \* monitors of the mock backend (_setup_mock)
MockEdids == (NumEdids + 1)..(NumEdids + NumMock)
AppEdids == Edids \cup MockEdids

SigToast == Sig("toast", 0, 0)
SigEscaped == Sig("uncaught-exception", 0, 0)

\* application.py Monitor: a new Monitor has no capabilities.
Monitor(obj, dn) == [obj |-> obj, dn |-> dn, caps |-> NoCaps]
NoAppMonitors == [e \in AppEdids |-> NoRec]
AppKnown(m) == {e \in AppEdids : m[e] # NoRec}

\* How a call through the proxy ends: a reply with status 0, a reply with a
\* non-zero status (DdcutilError), or a GLib.Error.
Outcome == {"ok", "status", "glib"}
OutcomesFor(mock) == IF mock THEN {"ok"} ELSE Outcome

\* DdcutilServiceClient._call: the mock backend answers when _mock is set,
\* and from the first GLib.Error on; a non-zero status is raised.
ByMock(mock, outcome) == mock \/ outcome = "glib"
Raises(mock, outcome) == ~mock /\ outcome = "status"

\* _mock_detect: the mock monitors with display numbers 1..NumMock.
mock_detect == [e \in AppEdids |-> IF e \in MockEdids THEN e - NumEdids ELSE 0]
\* The monitors a Detect or ListDetected reply of the service names.
AppDetects(mock) ==
    IF mock THEN {mock_detect}
    ELSE {[e \in AppEdids |-> IF e \in Edids THEN det.mons[e] ELSE 0] :
             det \in {d \in DetectReplies : d.ok}}

\* _parse_detect builds a new Monitor for every entry of the reply.
NewObj(old) == IF old = NoRec THEN 0 ELSE 1 - old.obj

\* MonitorStore.refresh after a successful call: the new monitors dict.
app_refresh(m, mons) ==
    [e \in AppEdids |-> IF mons[e] # 0 THEN Monitor(NewObj(m[e]), mons[e]) ELSE NoRec]

\* MonitorStore.order[0]; the service lists monitors by display number.
First(m) == CHOOSE e \in AppKnown(m) : \A f \in AppKnown(m) : m[e].dn <= m[f].dn

\* The values a GetMultipleVcp reply of the service may hold for a monitor.
AppValues(e) ==
    IF e \in Edids THEN {r.vals : r \in {x \in ValsReplies(e) : x.ok}} ELSE {NoValues}

\* get_capabilities of the service for a monitor: the features of the
\* metadata, before their values are read.
AppCapabilities(e) ==
    [c \in Codes |-> IF e \in Edids /\ c \in FeatureCodes(e)
                     THEN VcpValue(0, MaxValue) ELSE NoRec]

\* MonitorDetail.show_monitor(edid) with the outcomes of the calls it makes:
\* ensure_capabilities (get_capabilities when the monitor has none; the mock
\* backend has no entry for a monitor of the service and its capabilities
\* string yields no feature), then get_multiple_vcp inside try/except.
show_monitor(m, mock, current, edid, oc, ov, vals) ==
    IF m[edid] = NoRec
    THEN [monitors |-> m, mock |-> mock, current |-> current, raised |-> FALSE]
    ELSE
    LET needCaps == CapKeys(m[edid].caps) = {}
        mock1 == IF needCaps THEN ByMock(mock, oc) ELSE mock
        capsRaise == needCaps /\ (Raises(mock, oc) \/ (mock1 /\ edid \notin MockEdids))
        caps1 == IF needCaps /\ ~mock1 THEN AppCapabilities(edid) ELSE m[edid].caps
        mock2 == ByMock(mock1, ov)
        got == ~mock2 /\ ov = "ok"
        caps2 == [c \in Codes |->
                    IF got /\ caps1[c] # NoRec /\ vals[c] # NoRec
                    THEN VcpValue(vals[c].current, vals[c].maximum) ELSE caps1[c]]
    IN IF capsRaise
       THEN [monitors |-> m, mock |-> mock1, current |-> current, raised |-> TRUE]
       ELSE [monitors |-> [m EXCEPT ![edid].caps = caps2], mock |-> mock2,
             current |-> edid, raised |-> FALSE]

\* show_monitor as a step, with the replies it may get.
DoShowMonitor(op, ok, value, m, mock, edid, signals) ==
    \E oc \in (IF CapKeys(m[edid].caps) = {} THEN OutcomesFor(mock) ELSE {"ok"}) :
      \E ov \in OutcomesFor(ByMock(mock, oc)) :
        \E vals \in (IF ov = "ok" /\ ~ByMock(mock, oc) THEN AppValues(edid) ELSE {NoValues}) :
          LET r == show_monitor(m, mock, appCurrent, edid, oc, ov, vals)
          IN /\ appMonitors' = r.monitors
             /\ appMock' = r.mock
             /\ appCurrent' = r.current
             /\ sig' = signals \o (IF r.raised THEN <<SigEscaped>> ELSE <<>>)
             /\ lastOp' = Op(op, ok, edid, 0, value)

\* MonitorStore.refresh(use_list) and, for the monitors-changed it emits,
\* GnomeDdcApplication._on_monitors_changed -> show_monitor(first). `value`
\* is the event type of the ConnectedDisplaysChanged that asked for it, 0 for
\* the other handlers.
AppDoRefresh(op, value) ==
    \E od \in OutcomesFor(appMock) :
       IF Raises(appMock, od)
       THEN /\ sig' = <<>>
            /\ lastOp' = Op(op, FALSE, 0, 0, value)
            /\ UNCHANGED <<appMock, appMonitors, appCurrent>>
       ELSE \E mons \in AppDetects(ByMock(appMock, od)) :
            LET m1 == app_refresh(appMonitors, mons)
            IN IF AppKnown(m1) = {}
               THEN /\ appMonitors' = m1
                    /\ appMock' = ByMock(appMock, od)
                    /\ sig' = <<SigMonitorsChanged>>
                    /\ lastOp' = Op(op, TRUE, 0, 0, value)
                    /\ UNCHANGED appCurrent
               ELSE DoShowMonitor(op, TRUE, value, m1, ByMock(appMock, od), First(m1),
                                  <<SigMonitorsChanged>>)

\* GnomeDdcApplication.do_activate -> store.refresh().
AppActivate ==
    /\ UNCHANGED <<outsideApp, appSubscribed>>
    /\ AppDoRefresh("refresh", 0)

\* D-Bus signal ServiceInitialized -> store.refresh().
AppServiceInitialized ==
    /\ appSubscribed
    /\ UNCHANGED <<outsideApp, appSubscribed>>
    /\ AppDoRefresh("refresh", 0)

\* D-Bus signal ConnectedDisplaysChanged -> _on_connected_changed ->
\* store.refresh(use_list=True), whatever the event type.
AppConnectedChanged ==
    /\ appSubscribed
    /\ UNCHANGED <<outsideApp, appSubscribed>>
    /\ \E event_type \in {0, 1} : AppDoRefresh("refresh_list", event_type)

\* row-selected -> _on_monitor_selected -> show_monitor(edid); also emitted
\* by the select_row of _on_monitors_changed.
AppMonitorSelected ==
    /\ UNCHANGED <<outsideApp, appSubscribed>>
    /\ \E edid \in AppKnown(appMonitors) :
         DoShowMonitor("show_monitor", TRUE, 0, appMonitors, appMock, edid, <<>>)

\* D-Bus signal VcpValueChanged -> GnomeDdcApplication._on_vcp_changed.
AppVcpChanged ==
    /\ appSubscribed
    /\ UNCHANGED <<outsideApp, appSubscribed, appMock, appCurrent>>
    /\ \E dn \in DisplayNumbers, edid \in Edids, value \in Values :
       \E code \in FeatureCodes(edid) :
         /\ lastOp' = Op("vcp_signal", TRUE, edid, code, value)
         /\ IF appMonitors[edid] = NoRec
            THEN /\ sig' = <<>>
                 /\ UNCHANGED appMonitors
            ELSE IF appMonitors[edid].caps[code] = NoRec
            THEN /\ sig' = <<SigToast>>
                 /\ UNCHANGED appMonitors
            ELSE /\ appMonitors' = [appMonitors EXCEPT ![edid].caps[code].current = value]
                 /\ sig' = <<SigVcpUpdated(dn, code), SigToast>>

\* Throttle._fire of a VcpSliderRow bound by show_monitor ->
\* MonitorDetail._on_slider_changed(code, value): nothing when the store no
\* longer has current_edid, else service.set_vcp, whose exceptions are not
\* caught (the mock backend has no entry for a monitor of the service).
AppSliderChanged ==
    /\ appCurrent # 0
    /\ UNCHANGED <<outsideApp, appSubscribed, appMonitors, appCurrent>>
    /\ \E code \in Codes, value \in Values :
         IF appMonitors[appCurrent] = NoRec
         THEN /\ sig' = <<>>
              /\ lastOp' = Op("slider_changed", TRUE, appCurrent, code, value)
              /\ UNCHANGED appMock
         ELSE \E o \in OutcomesFor(appMock) :
              LET raised == \/ Raises(appMock, o)
                            \/ (ByMock(appMock, o) /\ appCurrent \notin MockEdids)
              IN /\ appMock' = ByMock(appMock, o)
                 /\ sig' = IF raised THEN <<SigEscaped>> ELSE <<>>
                 /\ lastOp' = Op("slider_changed", ~raised, appCurrent, code, value)

\* After GnomeDdcApplication.__init__: _connect_proxy has bound the proxy and
\* subscribed to the signals, or has fallen back to the mock backend.
InitApp ==
    /\ appMock \in BOOLEAN
    /\ appSubscribed = ~appMock
    /\ appMonitors = NoAppMonitors
    /\ appCurrent = 0
    /\ NoStore
    /\ NoUI
    /\ NoCli
    /\ NoMgr
    /\ sig = <<>>
    /\ NoConn
    /\ calls = <<>>
    /\ detected = NoDetect
    /\ lastOp = Op("init", TRUE, 0, 0, 0)

NextApp ==
    \/ AppActivate
    \/ AppServiceInitialized
    \/ AppConnectedChanged
    \/ AppMonitorSelected
    \/ AppVcpChanged
    \/ AppSliderChanged

SpecApplication == InitApp /\ [][NextApp]_vars

\* ------------------------------------------------------------------------
\* Properties of the application variant
\* ------------------------------------------------------------------------

\* C1: a full refresh answered by the service keeps, for every edid that was
\* in the store and is reported again, the same monitor object: no newly
\* created object is substituted for it.
C1_FullRefreshKeepsObjects ==
    [][(lastOp'.op = "refresh" /\ lastOp'.ok /\ ~appMock')
       => \A e \in AppEdids :
            (appMonitors[e] # NoRec /\ appMonitors'[e] # NoRec)
               => appMonitors'[e].obj = appMonitors[e].obj]_vars

\* C2: a light (list-only) refresh answered by the service never removes a
\* monitor from the store.
C2_LightRefreshKeepsMonitors ==
    [][(lastOp'.op = "refresh_list" /\ ~appMock')
       => \A e \in AppEdids : appMonitors[e] # NoRec => appMonitors'[e] # NoRec]_vars

\* C11: once the client is bound to the live service, no failed call switches
\* it to the mock backend: _mock can only be set by the discovery of startup.
C11_NoFallbackOnceBound ==
    [][~appMock => ~appMock']_vars

\* C17: a ConnectedDisplaysChanged event is answered by a light refresh only
\* when its event type is 0; any other event type gets a full refresh.
C17_LightRefreshOnlyForKindZero ==
    [][lastOp'.op = "refresh_list" => lastOp'.value = 0]_vars

\* C34: a write started by the user for a monitor whose edid is no longer in
\* the store is answered with an error shown to the user: it is not dropped
\* without a word.
C34_WriteToUnknownMonitorIsError ==
    [][(lastOp'.op = "slider_changed" /\ appMonitors[lastOp'.edid] = NoRec)
       => \E i \in 1..Len(sig') : sig'[i] \in {SigToast, SigError, SigEscaped}]_vars

\* ========================================================================
\* One VcpSliderRow of application.py with its Throttle, for a feature of the
\* monitor MonitorDetail shows.  ctl holds the position of the Gtk.Scale,
\* value.current of the store's VcpValue, Throttle._last_value (pending),
\* the time since the timeout source of the Throttle was installed (debounce,
\* NoneInt: no source), and origin: who made the last Throttle.update, the
\* user or a value pushed by the service.  The values of the model lie within
\* the range of the scale.  Time passes with Tick, as for the other control.
\* ========================================================================

\* The user drags the scale: value-changed -> _on_value_changed ->
\* Throttle.update(value), which replaces the timeout source.
RowValueChanged ==
    /\ UNCHANGED <<outsideUI, storeVars>>
    /\ \E value \in Values :
         /\ value # ctl.scale
         /\ ctl' = [ctl EXCEPT !.scale = value, !.pending = value,
                               !.debounce = 0, !.origin = "user"]
         /\ lastOp' = Op("value_changed", TRUE, 0, UiCode, value)
    /\ sinceReq' = 0
    /\ sig' = <<>>
    /\ calls' = <<>>

\* VcpValueChanged for the feature of the row: _on_vcp_changed sets
\* value.current, MonitorDetail.update_vcp -> CapabilityView.update_value ->
\* VcpSliderRow.update -> scale.set_value, whose value-changed (emitted when
\* the position changes) reaches _on_value_changed and Throttle.update.
RowUpdate ==
    /\ UNCHANGED <<outsideUI, storeVars, sinceReq>>
    /\ \E value \in Values :
         /\ ctl' = IF value # ctl.scale
                   THEN [ctl EXCEPT !.current = value, !.scale = value, !.pending = value,
                                    !.debounce = 0, !.origin = "push"]
                   ELSE [ctl EXCEPT !.current = value]
         /\ lastOp' = Op("vcp_changed", TRUE, 0, UiCode, value)
    /\ sig' = <<SigToast>>
    /\ calls' = <<>>

\* The timeout source runs Throttle._fire: callback(_last_value), that is
\* MonitorDetail._on_slider_changed -> service.set_vcp(monitor, code, value).
ThrottleFire ==
    /\ UNCHANGED <<outsideUI, storeVars, sinceReq>>
    /\ ctl.debounce # NoneInt
    /\ ctl.debounce >= Window
    /\ ctl' = [ctl EXCEPT !.debounce = NoneInt]
    /\ \E ok \in BOOLEAN :
         /\ sig' = IF ok THEN <<>> ELSE <<SigEscaped>>
         /\ lastOp' = Op("fire", ok, 0, UiCode, ctl.pending)
    /\ calls' = IF ctl.pending # NoneInt THEN <<ctl.pending>> ELSE <<>>

\* The row as CapabilityView.bind creates it for a feature with that value.
InitRow ==
    /\ \E current \in Values :
         ctl = [scale |-> current, current |-> current, pending |-> NoneInt,
                debounce |-> NoneInt, origin |-> "none"]
    /\ sinceReq = Window
    /\ NoStore
    /\ NoApp
    /\ NoCli
    /\ NoMgr
    /\ NoConn
    /\ detected = NoDetect
    /\ sig = <<>>
    /\ calls = <<>>
    /\ lastOp = Op("init", TRUE, 0, 0, 0)

NextRow ==
    \/ RowValueChanged
    \/ RowUpdate
    \/ Tick
    \/ ThrottleFire

SpecRow == InitRow /\ [][NextRow]_vars

\* C36: a value pushed by the service and delivered to a control never makes
\* the control send a set call: every set call carries a value the user put
\* into the control.
C36_PushedValueNotEchoed ==
    [][(lastOp'.op = "fire" /\ calls' # <<>>) => ctl.origin = "user"]_vars

\* ========================================================================
\* The mock backend of application.py, called through the client's API
\* ========================================================================
MockMaximum == 100                \* maximum of the mock features (_setup_mock)

\* _setup_mock: brightness 0x10 starts at 40, contrast 0x12 at 50.
setup_mock ==
    [e \in MockEdids |->
        [c \in Codes |-> VcpValue(IF c = CodeSeq[1] THEN 40 ELSE 50, MockMaximum)]]

\* Variant whose write is not applied to the mock state.
mock_set_vcp_Dropped(state, edid, code, value) == state

\* _mock_call("SetVcpWithContext"): capabilities[vcp_code].current = int(value).
mock_set_vcp(state, edid, code, value) ==
    [state EXCEPT ![edid][code].current = value]

\* _mock_call("GetMultipleVcp") as get_multiple_vcp returns it: code ->
\* (current, maximum) for the codes asked for.
mock_get_multiple_vcp(state, edid, codes) ==
    [c \in Codes |-> IF c \in codes THEN state[edid][c] ELSE NoRec]

\* DdcutilServiceClient.set_vcp on a mock monitor.
MockSetVcp ==
    /\ UNCHANGED <<outsideConn, options, connReply>>
    /\ \E edid \in MockEdids, code \in Codes, value \in Values :
         /\ mockState' = mock_set_vcp(mockState, edid, code, value)
         /\ lastOp' = Op("set_vcp", TRUE, edid, code, value)
    /\ connResult' = NoRec
    /\ sig' = <<>>
    /\ calls' = <<>>

\* DdcutilServiceClient.get_multiple_vcp on a mock monitor.
MockGetMultipleVcp ==
    /\ UNCHANGED <<outsideConn, options, connReply, mockState>>
    /\ \E edid \in MockEdids, codes \in SUBSET Codes :
         /\ connResult' = [values |-> mock_get_multiple_vcp(mockState, edid, codes)]
         /\ lastOp' = Op("get_multiple_vcp", TRUE, edid, 0, 0)
    /\ sig' = <<>>
    /\ calls' = <<>>

\* The client after __init__ with GNOMEDDC_FORCE_MOCK=1 or a failed
\* _connect_proxy.
InitMock ==
    /\ mockState = setup_mock
    /\ options = NoRec
    /\ connReply = NoRec
    /\ connResult = NoRec
    /\ NoStore
    /\ NoUI
    /\ NoApp
    /\ NoCli
    /\ NoMgr
    /\ detected = NoDetect
    /\ sig = <<>>
    /\ calls = <<>>
    /\ lastOp = Op("init", TRUE, 0, 0, 0)

NextMock ==
    \/ MockSetVcp
    \/ MockGetMultipleVcp

SpecMock == InitMock /\ [][NextMock]_vars

\* C23: against the mock backend, a set of (monitor, code) to v leaves the
\* maximum as it was, and a read of that monitor and code that follows it
\* immediately returns current = v with that maximum.
C23_MockSetThenGet ==
    [][/\ lastOp'.op = "set_vcp"
          => mockState'[lastOp'.edid][lastOp'.code].maximum
                = mockState[lastOp'.edid][lastOp'.code].maximum
       /\ (/\ lastOp.op = "set_vcp"
           /\ lastOp'.op = "get_multiple_vcp"
           /\ lastOp'.edid = lastOp.edid
           /\ connResult'.values[lastOp.code] # NoRec)
          => connResult'.values[lastOp.code] = VcpValue(lastOp.value, MockMaximum)]_vars

\* A read has just returned a value that an earlier write put into the mock
\* state.
C23_Witness ==
    /\ lastOp.op = "get_multiple_vcp"
    /\ \E c \in Codes :
         connResult.values[c] # NoRec /\ connResult.values[c].current \in Values

\* ========================================================================
\* The option flags of the clients: client.py and application.py
\* ========================================================================
\* Python's a | b on non-negative integers.
RECURSIVE BitOr(_, _)
BitOr(a, b) ==
    IF a = 0 THEN b
    ELSE IF b = 0 THEN a
    ELSE (IF a % 2 = 1 \/ b % 2 = 1 THEN 1 ELSE 0) + 2 * BitOr(a \div 2, b \div 2)

\* Variant that gives both options the same bit.
prepare_flags_SameBit(opts, base_flags) ==
    LET flags == IF opts.raw_values THEN BitOr(base_flags, 2) ELSE base_flags
    IN IF opts.no_verify THEN BitOr(flags, 2) ELSE flags

\* DdcutilClient._prepare_flags(base_flags); DdcutilServiceClient._build_flags
\* is the same with base_flags = 0.
prepare_flags(opts, base_flags) ==
    LET flags == IF opts.raw_values THEN BitOr(base_flags, 2) ELSE base_flags
    IN IF opts.no_verify THEN BitOr(flags, 4) ELSE flags

\* The flags argument of the call application.py _wrap_parameters builds:
\* only SetVcp and Restart get one, SetVcpWithContext carries the client
\* context in its place and the other methods carry the caller's parameters.
wrap_parameters(method, opts) ==
    IF method \in {"SetVcp", "Restart"} THEN prepare_flags(opts, 0) ELSE NoneInt

\* The raw_values setter of either client.
SetRawValues ==
    /\ UNCHANGED <<outsideConn, mockState, connReply, connResult>>
    /\ \E value \in BOOLEAN :
         /\ options' = [options EXCEPT !.raw_values = value]
         /\ lastOp' = Op("raw_values", TRUE, 0, 0, IF value THEN 1 ELSE 0)
    /\ sig' = <<>>
    /\ calls' = <<>>

\* The no_verify setter of either client.
SetNoVerify ==
    /\ UNCHANGED <<outsideConn, mockState, connReply, connResult>>
    /\ \E value \in BOOLEAN :
         /\ options' = [options EXCEPT !.no_verify = value]
         /\ lastOp' = Op("no_verify", TRUE, 0, 0, IF value THEN 1 ELSE 0)
    /\ sig' = <<>>
    /\ calls' = <<>>

\* client.py get_multiple_vcp, get_vcp, set_vcp and set_vcp_with_context,
\* called with flags = base_flags.
ClientCall ==
    /\ UNCHANGED <<outsideConn, mockState, options, connReply, connResult>>
    /\ \E method \in {"GetMultipleVcp", "GetVcp", "SetVcp", "SetVcpWithContext"},
          code \in Codes, base_flags \in {0, 1, 2} :
         /\ calls' = <<[method |-> method, code |-> code,
                        flags |-> prepare_flags(options, base_flags)]>>
         /\ lastOp' = Op("client_call", TRUE, 0, code, base_flags)
    /\ sig' = <<>>

\* application.py get_multiple_vcp (GetMultipleVcp) and set_vcp
\* (SetVcpWithContext) through _call and _wrap_parameters.
AppCall ==
    /\ UNCHANGED <<outsideConn, mockState, options, connReply, connResult>>
    /\ \E method \in {"GetMultipleVcp", "SetVcpWithContext"}, code \in Codes :
         /\ calls' = <<[method |-> method, code |-> code,
                        flags |-> wrap_parameters(method, options)]>>
         /\ lastOp' = Op("app_call", TRUE, 0, code, 0)
    /\ sig' = <<>>

\* Both options are off after __init__.
InitOptions ==
    /\ options = [raw_values |-> FALSE, no_verify |-> FALSE]
    /\ mockState = <<>>
    /\ connReply = NoRec
    /\ connResult = NoRec
    /\ NoStore
    /\ NoUI
    /\ NoApp
    /\ NoCli
    /\ NoMgr
    /\ detected = NoDetect
    /\ sig = <<>>
    /\ calls = <<>>
    /\ lastOp = Op("init", TRUE, 0, 0, 0)

NextOptions ==
    \/ SetRawValues
    \/ SetNoVerify
    \/ ClientCall
    \/ AppCall

SpecOptions == InitOptions /\ [][NextOptions]_vars

\* C24: the flags with base 0 depend only on the two options: 0, 2, 4 or 6
\* for raw_values and no_verify off/off, on/off, off/on, on/on; a setter puts
\* its option to the value given and leaves the other option alone, so the
\* order of the calls and their repetition do not matter.
C24_FlagsFromOptions ==
    [][/\ prepare_flags(options', 0) =
             (IF options'.raw_values THEN 2 ELSE 0) + (IF options'.no_verify THEN 4 ELSE 0)
       /\ lastOp'.op = "raw_values"
            => options' = [options EXCEPT !.raw_values = (lastOp'.value = 1)]
       /\ lastOp'.op = "no_verify"
            => options' = [options EXCEPT !.no_verify = (lastOp'.value = 1)]]_vars

\* no_verify has just been switched on while raw_values was on: the flags
\* are 6.
C24_Witness ==
    /\ lastOp.op = "no_verify"
    /\ lastOp.value = 1
    /\ options.raw_values
    /\ options.no_verify
    /\ prepare_flags(options, 0) = 6

\* C25: every read and write call carries the flags base | raw bit | verify
\* bit of the options in force when it is made.
C25_CallsCarryFlags ==
    [][lastOp'.op \in {"client_call", "app_call"}
       => \A i \in 1..Len(calls') :
            calls'[i].flags =
               BitOr(BitOr(lastOp'.value, IF options.raw_values THEN 2 ELSE 0),
                     IF options.no_verify THEN 4 ELSE 0)]_vars

\* ========================================================================
\* Probing and reply decoding of the two lower-level backends:
\* monitor_manager.py (candidate names, reply shapes) and ddcutil.py
\* (JSON first, plain text second).  The functions are applied to inputs
\* drawn from bounded sets; connReply holds the input, connResult the outcome.
\* ========================================================================

\* The unpacked replies handed to _extract_feature_values: an int, None, a
\* string, a tuple of 0 to 3 items (a pair of ints may be an item of a
\* shorter tuple), or a dict over the six keys the code reads (NoneInt marks
\* a key that is absent).
Replies ==
    LET Ints     == {[t |-> "int", n |-> n] : n \in Values}
        Scalars  == Ints \cup {[t |-> "none"], [t |-> "str"]}
        Pairs    == {[t |-> "tuple", items |-> <<a, b>>] : a \in Ints, b \in Ints}
        Items    == Scalars \cup Pairs
        DictVals == {NoneInt, 0, MaxValue}
        Dicts    == {[t |-> "dict", value |-> v[1], CurrentValue |-> v[2],
                      current |-> v[3], maximum |-> v[4], MaxValue |-> v[5],
                      max |-> v[6]] : v \in [1..6 -> DictVals]}
        Tuples   == {[t |-> "tuple", items |-> s] :
                       s \in {<<>>} \cup [1..1 -> Items] \cup [1..2 -> Items]
                                    \cup [1..3 -> Ints \cup {[t |-> "none"]}]}
    IN Scalars \cup Tuples \cup Dicts

\* Variant that returns the two leading items of a tuple in the other order.
extract_feature_values_Swapped(unpacked) ==
    IF unpacked.t = "tuple" /\ Len(unpacked.items) >= 2
          /\ unpacked.items[1].t = "int" /\ unpacked.items[2].t = "int"
    THEN [t |-> "ok", current |-> unpacked.items[2].n, maximum |-> unpacked.items[1].n]
    ELSE IF unpacked.t = "int"
    THEN [t |-> "ok", current |-> unpacked.n, maximum |-> NoneInt]
    ELSE [t |-> "error", kind |-> "GLib.Error"]

\* MonitorManager._extract_feature_values.  int() of None or of a string
\* that is no number raises TypeError / ValueError; a reply of no known
\* shape, the empty tuple included, raises GLib.Error.
RECURSIVE extract_feature_values(_)
extract_feature_values(unpacked) ==
    LET PyOr(a, b) == IF a # NoneInt /\ a # 0 THEN a ELSE b
    IN
    IF unpacked.t = "tuple" /\ Len(unpacked.items) = 1
    THEN extract_feature_values(unpacked.items[1])
    ELSE IF unpacked.t = "tuple" /\ Len(unpacked.items) >= 2
    THEN IF unpacked.items[1].t # "int" \/ unpacked.items[2].t \notin {"int", "none"}
         THEN [t |-> "error", kind |-> "TypeError"]
         ELSE [t |-> "ok", current |-> unpacked.items[1].n,
               maximum |-> IF unpacked.items[2].t = "none" THEN NoneInt
                           ELSE unpacked.items[2].n]
    ELSE IF unpacked.t = "dict"
    THEN [t |-> "ok",
          current |-> PyOr(PyOr(unpacked.value, unpacked.CurrentValue),
                           IF unpacked.current = NoneInt THEN 0 ELSE unpacked.current),
          maximum |-> PyOr(PyOr(unpacked.maximum, unpacked.MaxValue), unpacked.max)]
    ELSE IF unpacked.t = "int"
    THEN [t |-> "ok", current |-> unpacked.n, maximum |-> NoneInt]
    ELSE [t |-> "error", kind |-> "GLib.Error"]

\* _call_get hands the unpacked reply of the candidate that answered to
\* _extract_feature_values.
ExtractFeatureValues ==
    /\ UNCHANGED <<outsideConn, mockState, options>>
    /\ \E unpacked \in Replies :
         /\ connReply' = unpacked
         /\ connResult' = extract_feature_values(unpacked)
         /\ lastOp' = Op("extract_feature_values",
                         extract_feature_values(unpacked).t = "ok", 0, 0, 0)
    /\ sig' = <<>>
    /\ calls' = <<>>

NumBusNames == 5                  \* len(BUS_NAMES)

\* Variant that keeps probing and returns the last name that answers.
discover_service_Last(answers, i) ==
    IF \E j \in i..Len(answers) : answers[j]
    THEN CHOOSE j \in i..Len(answers) :
            answers[j] /\ \A k \in (j + 1)..Len(answers) : ~answers[k]
    ELSE 0

\* MonitorManager._discover_service from the i-th name of BUS_NAMES on:
\* GetNameOwner is asked for each name in turn, the first name for which the
\* call does not raise GLib.Error is returned, None (0) when all raise.
RECURSIVE discover_service(_, _)
discover_service(answers, i) ==
    IF i > Len(answers) THEN 0
    ELSE IF answers[i] THEN i
    ELSE discover_service(answers, i + 1)

\* _load_monitors_thread -> _discover_service(bus); answers[i] tells whether
\* the i-th name of BUS_NAMES has an owner.  calls holds the names probed.
DiscoverService ==
    /\ UNCHANGED <<outsideConn, mockState, options>>
    /\ \E answers \in [1..NumBusNames -> BOOLEAN] :
         LET name == discover_service(answers, 1)
         IN /\ connReply' = [answers |-> answers]
            /\ connResult' = [name |-> name]
            /\ calls' = [i \in 1..(IF name = 0 THEN NumBusNames ELSE name) |-> i]
            /\ lastOp' = Op("discover_service", name # 0, 0, 0, 0)
    /\ sig' = <<>>

\* ddcutil.py list_displays / query_feature.  json and text are what the
\* structured and the plain-text command do when they are run:
\*   "failed"      _run_ddcutil raises DDCError (non-zero return code)
\*   "timeout"     subprocess.run raises TimeoutExpired after _DEF_TIMEOUT
\*   "not_json"    json.loads raises JSONDecodeError
\*   "json_other"  valid JSON that is no object: data.get raises AttributeError
\*   "json_object" a JSON object, parsed by _parse_detect_json/_parse_feature_json
\*   "unmatched"   text the regular expression of _parse_feature_text rejects
\*   "matched"     text that this expression accepts
\* Only DDCError and JSONDecodeError start the plain-text command;
\* _parse_detect_text accepts any text.  run lists the commands executed
\* (calls numbers them: 1 the structured command, 2 the plain-text one).
ddcutil_query(fn, json, text) ==
    IF json = "json_object"
    THEN [t |-> "ok", via |-> "json", run |-> <<"json">>]
    ELSE IF json = "timeout"
    THEN [t |-> "error", kind |-> "TimeoutExpired", run |-> <<"json">>]
    ELSE IF json = "json_other"
    THEN [t |-> "error", kind |-> "AttributeError", run |-> <<"json">>]
    ELSE IF text = "failed"
    THEN [t |-> "error", kind |-> "DDCError", run |-> <<"json", "text">>]
    ELSE IF text = "timeout"
    THEN [t |-> "error", kind |-> "TimeoutExpired", run |-> <<"json", "text">>]
    ELSE IF text = "unmatched" /\ fn = "query_feature"
    THEN [t |-> "error", kind |-> "DDCError", run |-> <<"json", "text">>]
    ELSE [t |-> "ok", via |-> "text", run |-> <<"json", "text">>]

\* A call of list_displays() or query_feature(bus, code).
DdcutilQuery ==
    /\ UNCHANGED <<outsideConn, mockState, options>>
    /\ \E fn \in {"list_displays", "query_feature"},
          json \in {"failed", "timeout", "not_json", "json_other", "json_object"},
          text \in {"failed", "timeout", "unmatched", "matched"} :
         LET result == ddcutil_query(fn, json, text)
         IN /\ connReply' = [json |-> json, text |-> text]
            /\ connResult' = result
            /\ calls' = [i \in 1..Len(result.run) |-> i]
            /\ lastOp' = Op(fn, result.t = "ok", 0, 0, 0)
    /\ sig' = <<>>

\* Nothing has been asked yet.
InitProbe ==
    /\ NoConn
    /\ NoStore
    /\ NoUI
    /\ NoApp
    /\ NoCli
    /\ NoMgr
    /\ detected = NoDetect
    /\ sig = <<>>
    /\ calls = <<>>
    /\ lastOp = Op("init", TRUE, 0, 0, 0)

NextProbe ==
    \/ ExtractFeatureValues
    \/ DiscoverService
    \/ DdcutilQuery

SpecProbe == InitProbe /\ [][NextProbe]_vars

\* C26: a tuple reply r of two or more items decodes to (r[0], r[1]), a bare
\* integer n to (n, unknown), and a reply that is neither a tuple nor a record
\* nor an integer fails with an error.
C26_ReplyDecoding ==
    [][lastOp'.op = "extract_feature_values"
       => LET r == connReply'
              out == connResult'
          IN /\ (/\ r.t = "tuple"
                 /\ Len(r.items) >= 2
                 /\ r.items[1].t = "int"
                 /\ r.items[2].t \in {"int", "none"})
                   => out = [t |-> "ok", current |-> r.items[1].n,
                             maximum |-> IF r.items[2].t = "int" THEN r.items[2].n
                                         ELSE NoneInt]
             /\ r.t = "int" => out = [t |-> "ok", current |-> r.n, maximum |-> NoneInt]
             /\ r.t \notin {"tuple", "dict", "int"} => out.t = "error"]_vars

\* A pair of two different integers has just been decoded, current first.
C26_Witness ==
    /\ lastOp.op = "extract_feature_values"
    /\ connReply = [t |-> "tuple", items |-> <<[t |-> "int", n |-> 1], [t |-> "int", n |-> MaxValue]>>]
    /\ connResult = [t |-> "ok", current |-> 1, maximum |-> MaxValue]

\* C35: for a record reply, current is the value under the first key present
\* among value, CurrentValue, current, and maximum the value under the first
\* key present among maximum, MaxValue, max, taken as it is, 0 included;
\* maximum is unknown only when none of its three keys is present.
C35_RecordFirstPresentKey ==
    [][(lastOp'.op = "extract_feature_values" /\ connReply'.t = "dict")
       => LET r == connReply'
              FirstPresent(a, b, c) == IF a # NoneInt THEN a ELSE IF b # NoneInt THEN b ELSE c
          IN /\ connResult'.t = "ok"
             /\ FirstPresent(r.value, r.CurrentValue, r.current) # NoneInt
                  => connResult'.current = FirstPresent(r.value, r.CurrentValue, r.current)
             /\ connResult'.maximum = FirstPresent(r.maximum, r.MaxValue, r.max)]_vars

\* C28: list_displays and query_feature run the structured command first;
\* whenever it fails or its output cannot be parsed they return what the
\* plain-text command yields, and they raise only if that one fails too.
C28_TextFallback ==
    [][lastOp'.op \in {"list_displays", "query_feature"}
       => LET out == connResult'
          IN /\ out.run[1] = "json"
             /\ connReply'.json = "json_object" => (out.t = "ok" /\ out.via = "json")
             /\ connReply'.json # "json_object"
                  => /\ out.run = <<"json", "text">>
                     /\ out.t = "error"
                          <=> \/ connReply'.text \in {"failed", "timeout"}
                              \/ (connReply'.text = "unmatched"
                                    /\ lastOp'.op = "query_feature")]_vars

\* C30: discovery probes the names of BUS_NAMES in order and binds the first
\* one that answers: a name is bound only if no name before it answered, and
\* none is bound when none answers.
C30_FirstAnsweringNameBound ==
    [][lastOp'.op = "discover_service"
       => LET answers == connReply'.answers
              name == connResult'.name
          IN /\ (\A i \in 1..NumBusNames : ~answers[i]) => name = 0
             /\ (\E i \in 1..NumBusNames : answers[i])
                  => /\ name \in 1..NumBusNames
                     /\ answers[name]
                     /\ \A j \in 1..(name - 1) : ~answers[j]
             /\ \A i \in 1..Len(calls') : calls'[i] = i]_vars

\* The third name has just been bound although the fifth answers too.
C30_Witness ==
    /\ lastOp.op = "discover_service"
    /\ connResult.name = 3
    /\ connReply.answers[5]
    /\ calls = <<1, 2, 3>>

\* ========================================================================
\* Command-line variant: app.py, worker.py, ddcutil.py
\* One SliderRow of a MonitorDetailPage and the writes it starts.
\* ========================================================================

\* SliderRow._on_value_changed -> MonitorDetailPage._on_slider_changed:
\* AsyncRunner.run starts a new thread for the write.
CliSliderChanged ==
    /\ UNCHANGED outsideCli
    /\ Len(cliCommitted) < MaxWrites
    /\ \E value \in Values :
         /\ value # cliSlider
         /\ cliSlider' = value
         /\ cliCommitted' = Append(cliCommitted, value)
         /\ lastOp' = Op("slider_changed", TRUE, 0, CodeSeq[1], value)
    /\ cliThread' = Append(cliThread, "started")
    /\ sig' = <<>>
    /\ calls' = <<>>
    /\ UNCHANGED <<cliIdle, cliReceived, cliBackend>>

\* The target of one of the threads runs: set_feature (ddcutil setvcp), then
\* GLib.idle_add of the callback with the result or the exception.
CliThreadRuns ==
    /\ UNCHANGED outsideCli
    /\ \E t \in 1..Len(cliThread) : \E ok \in BOOLEAN :
         /\ cliThread[t] = "started"
         /\ cliThread' = [cliThread EXCEPT ![t] = IF ok THEN "done" ELSE "failed"]
         /\ cliReceived' = IF ok THEN Append(cliReceived, t) ELSE cliReceived
         /\ cliBackend' = IF ok THEN cliCommitted[t] ELSE cliBackend
         /\ cliIdle' = Append(cliIdle, t)
         /\ calls' = <<cliCommitted[t]>>
         /\ lastOp' = Op("set_feature", ok, 0, CodeSeq[1], cliCommitted[t])
    /\ sig' = <<>>
    /\ UNCHANGED <<cliSlider, cliCommitted>>

\* MonitorDetailPage._on_set_feature_finished in the main loop: an error is
\* logged.
CliSetFinished ==
    /\ UNCHANGED outsideCli
    /\ cliIdle # <<>>
    /\ cliThread' = [cliThread EXCEPT ![Head(cliIdle)] = "reported"]
    /\ cliIdle' = Tail(cliIdle)
    /\ sig' = <<>>
    /\ calls' = <<>>
    /\ lastOp' = Op("set_feature_finished", cliThread[Head(cliIdle)] = "done", 0,
                    CodeSeq[1], cliCommitted[Head(cliIdle)])
    /\ UNCHANGED <<cliSlider, cliCommitted, cliReceived, cliBackend>>

\* The page after its features were loaded: the scale shows the value read.
InitCli ==
    /\ cliSlider \in Values
    /\ cliBackend = cliSlider
    /\ cliCommitted = <<>>
    /\ cliThread = <<>>
    /\ cliIdle = <<>>
    /\ cliReceived = <<>>
    /\ NoStore
    /\ NoUI
    /\ NoApp
    /\ NoMgr
    /\ sig = <<>>
    /\ NoConn
    /\ calls = <<>>
    /\ detected = NoDetect
    /\ lastOp = Op("init", TRUE, 0, 0, 0)

NextCli ==
    \/ CliSliderChanged
    \/ CliThreadRuns
    \/ CliSetFinished

SpecCli == InitCli /\ [][NextCli]_vars

\* C8: the writes of one (monitor, feature) pair reach the backend in the
\* order in which they were committed.
C8_WritesInCommitOrder ==
    \A i, j \in 1..Len(cliReceived) : i < j => cliReceived[i] < cliReceived[j]

\* ========================================================================
\* Manager variant: monitor_manager.py and widgets/feature_row.py
\* ========================================================================
NumSetMethods == 4                \* len(SET_METHOD_CANDIDATES)
MonitorInfo(features) == [features |-> features]
FeatureState(value, maximum) == [value |-> value, maximum |-> maximum]
NoMgrMonitors == [e \in Edids |-> NoRec]

\* _collect_features for one monitor: a feature whose _call_get raises
\* GLib.Error is skipped; the others get the value read.
FeatureReads(e) ==
    {g \in [Codes -> {NoRec} \cup {FeatureState(v, MaxValue) : v \in Values}] :
        \A c \in Codes : c \notin FeatureCodes(e) => g[c] = NoRec}
ReadFailed(e, features) == \E c \in FeatureCodes(e) : features[c] = NoRec

\* The monitors _load_monitors_thread may build from GetManagedObjects.
RECURSIVE LoadedMonitors(_)
LoadedMonitors(n) ==
    IF n = 0 THEN {<<>>}
    ELSE {Append(s, x) : s \in LoadedMonitors(n - 1),
                         x \in {NoRec} \cup {MonitorInfo(f) : f \in FeatureReads(n)}}

IdleItem(kind, m, ok) == [kind |-> kind, monitors |-> m, ok |-> ok]

\* MonitorManager.refresh: it returns at once while a refresh is running
\* (lastOp.ok is FALSE then), else it emits refresh-started and submits
\* _load_monitors_thread to the executor.
MgrRefresh ==
    /\ UNCHANGED outsideMgr
    /\ IF mgrFuture = "running"
       THEN /\ sig' = <<>>
            /\ lastOp' = Op("mgr_refresh", FALSE, 0, 0, 0)
            /\ UNCHANGED mgrFuture
       ELSE /\ mgrFuture' = "running"
            /\ sig' = <<Sig("refresh-started", 0, 0)>>
            /\ lastOp' = Op("mgr_refresh", TRUE, 0, 0, 0)
    /\ calls' = <<>>
    /\ UNCHANGED <<mgrMonitors, mgrService, mgrIdle, mgrSetName>>

\* The handlers that run on the thread of _executor; the others are callbacks
\* of the GLib main loop (signal handlers and idle callbacks).
OnWorker(op) == op = "load_monitors"

\* Variant in which the result of the worker is never handed over.
MgrLoadMonitors_Drops ==
    /\ UNCHANGED outsideMgr
    /\ mgrFuture = "running"
    /\ mgrFuture' = "done"
    /\ mgrService' = TRUE
    /\ lastOp' = Op("load_monitors", TRUE, 0, 0, 0)
    /\ sig' = <<>>
    /\ calls' = <<>>
    /\ UNCHANGED <<mgrMonitors, mgrIdle, mgrSetName>>

\* Variant in which the worker assigns _monitors itself.
MgrLoadMonitors_WritesStore ==
    /\ UNCHANGED outsideMgr
    /\ mgrFuture = "running"
    /\ Len(mgrIdle) < MaxIdle
    /\ mgrFuture' = "done"
    /\ mgrService' = TRUE
    /\ \E m \in LoadedMonitors(NumEdids) :
         /\ mgrMonitors' = m
         /\ mgrIdle' = Append(mgrIdle, IdleItem("update", m, TRUE))
    /\ lastOp' = Op("load_monitors", TRUE, 0, 0, 0)
    /\ sig' = <<>>
    /\ calls' = <<>>
    /\ UNCHANGED mgrSetName

\* The worker: _load_monitors_thread, then _on_refresh_finished, which hands
\* the result to the main loop with GLib.idle_add.
MgrLoadMonitors ==
    /\ UNCHANGED outsideMgr
    /\ mgrFuture = "running"
    /\ Len(mgrIdle) < MaxIdle
    /\ mgrFuture' = "done"
    /\ \E discovered \in BOOLEAN, listed \in BOOLEAN :
         /\ mgrService' = discovered
         /\ IF ~discovered
            THEN mgrIdle' = Append(mgrIdle, IdleItem("update", NoMgrMonitors, FALSE))
            ELSE IF ~listed
            THEN mgrIdle' = Append(mgrIdle, IdleItem("refresh-failed", NoMgrMonitors, FALSE))
            ELSE \E m \in LoadedMonitors(NumEdids) :
                   mgrIdle' = Append(mgrIdle, IdleItem("update", m,
                       ~\E e \in Edids : m[e] # NoRec /\ ReadFailed(e, m[e].features)))
         /\ lastOp' = Op("load_monitors", discovered /\ listed, 0, 0, 0)
    /\ sig' = <<>>
    /\ calls' = <<>>
    /\ UNCHANGED <<mgrMonitors, mgrSetName>>

\* The main loop runs the next idle callback: update() of
\* _on_refresh_finished, or the emit of refresh-failed or monitor-updated.
MgrIdleRuns ==
    /\ UNCHANGED outsideMgr
    /\ mgrIdle # <<>>
    /\ LET item == Head(mgrIdle)
       IN /\ mgrMonitors' = IF item.kind = "update" THEN item.monitors ELSE mgrMonitors
          /\ sig' = <<Sig(IF item.kind = "update" THEN "monitors-changed" ELSE item.kind, 0, 0)>>
          /\ lastOp' = Op(item.kind, item.ok, 0, 0, 0)
    /\ mgrIdle' = Tail(mgrIdle)
    /\ calls' = <<>>
    /\ UNCHANGED <<mgrService, mgrFuture, mgrSetName>>

\* _call_set for a call whose first accepted candidate of
\* SET_METHOD_CANDIDATES is `accepted` (0: none is accepted, GLib.Error): the
\* candidates it invokes, always starting with the first one.
call_set(accepted) ==
    [i \in 1..(IF accepted = 0 THEN NumSetMethods ELSE accepted) |-> i]

\* FeatureRow._on_scale_value_changed -> MonitorManager.set_feature_value,
\* for a row of a monitor of the current list.
MgrSetFeature ==
    /\ UNCHANGED outsideMgr
    /\ \E e \in Edids, c \in Codes, value \in Values, accepted \in 0..NumSetMethods :
         LET ok == accepted # 0
         IN
         /\ mgrMonitors[e] # NoRec
         /\ mgrMonitors[e].features[c] # NoRec
         /\ value # mgrMonitors[e].features[c].value
         /\ IF ~mgrService
            THEN /\ ~ok
                 /\ calls' = <<>>
                 /\ UNCHANGED <<mgrMonitors, mgrIdle, mgrSetName>>
            ELSE /\ Len(mgrIdle) < MaxIdle
                 /\ calls' = call_set(accepted)
                 /\ mgrSetName' = IF mgrSetName = 0 THEN accepted ELSE mgrSetName
                 /\ mgrMonitors' = IF ok THEN [mgrMonitors EXCEPT ![e].features[c].value = value]
                                   ELSE mgrMonitors
                 /\ mgrIdle' = Append(mgrIdle,
                       IdleItem(IF ok THEN "monitor-updated" ELSE "refresh-failed",
                                NoMgrMonitors, ok))
         /\ lastOp' = Op("set_feature_value", ok, e, c, value)
    /\ sig' = <<>>
    /\ UNCHANGED <<mgrService, mgrFuture>>

InitMgr ==
    /\ mgrMonitors = NoMgrMonitors
    /\ mgrService = FALSE
    /\ mgrFuture = "none"
    /\ mgrIdle = <<>>
    /\ mgrSetName = 0
    /\ NoStore
    /\ NoUI
    /\ NoApp
    /\ NoCli
    /\ sig = <<>>
    /\ NoConn
    /\ calls = <<>>
    /\ detected = NoDetect
    /\ lastOp = Op("init", TRUE, 0, 0, 0)

NextMgr ==
    \/ MgrRefresh
    \/ MgrLoadMonitors
    \/ MgrIdleRuns
    \/ MgrSetFeature

SpecMgr == InitMgr /\ [][NextMgr]_vars

\* The refresh cycle alone, with the scheduling the code relies on: the
\* call of the worker returns or raises (strong fairness, the bound of the
\* idle queue may keep it waiting), and the main loop runs its idle
\* callbacks (weak fairness).
NextMgrRefresh ==
    \/ MgrRefresh
    \/ MgrLoadMonitors
    \/ MgrIdleRuns

SpecMgrRefresh ==
    /\ InitMgr
    /\ [][NextMgrRefresh]_vars
    /\ SF_vars(MgrLoadMonitors)
    /\ WF_vars(MgrIdleRuns)

\* C9: when a backend call fails during a refresh or a value fetch, the
\* monitors, features and values that were stored before are still there.
C9_FailureLeavesSnapshot ==
    [][(lastOp'.op = "update" /\ ~lastOp'.ok)
       => \A e \in Edids :
            mgrMonitors[e] # NoRec
               => /\ mgrMonitors'[e] # NoRec
                  /\ \A c \in Codes :
                       mgrMonitors[e].features[c] # NoRec
                          => mgrMonitors'[e].features[c] = mgrMonitors[e].features[c]]_vars

\* C12: when the discovery of startup finds no service name, a simulated
\* backend is bound and the monitors handed to the main loop are a fixed
\* non-empty list.
C12_NoServiceBindsSimulated ==
    [][(/\ lastOp'.op = "load_monitors"
        /\ ~mgrService
        /\ ~mgrService'
        /\ mgrMonitors = NoMgrMonitors)
       => \E e \in Edids : mgrIdle'[Len(mgrIdle')].monitors[e] # NoRec]_vars

\* C13: once discovery has bound a service name, the binding stays for the
\* rest of the session: no later refresh leaves the manager without one.
C13_BoundIdentityKept ==
    [][mgrService => mgrService']_vars

\* C14: after a set call first succeeded with a candidate method name, every
\* later set call of the session invokes that name and tries no other.
C14_WinningNameRemembered ==
    [][(/\ lastOp'.op = "set_feature_value"
        /\ mgrSetName # 0
        /\ calls' # <<>>)
       => calls' = <<mgrSetName>>]_vars

\* C21: every handler that makes a backend call (the calls of a refresh, a
\* set call) runs on the worker thread, none on the main loop.
C21_BackendCallsOnWorker ==
    [][(lastOp'.op = "load_monitors" \/ calls' # <<>>) => OnWorker(lastOp'.op)]_vars

\* C22: the monitor list and the feature values are written only on the main
\* loop: a step of the worker leaves them as they are, its result reaches
\* them through an idle callback.
C22_WorkerLeavesStore ==
    [][OnWorker(lastOp'.op) => mgrMonitors' = mgrMonitors]_vars

\* The worker has just finished a refresh that found monitors: its result is
\* waiting in the idle queue and differs from the list the manager holds.
C22_Witness ==
    /\ lastOp.op = "load_monitors"
    /\ lastOp.ok
    /\ mgrIdle # <<>>
    /\ mgrIdle[Len(mgrIdle)].kind = "update"
    /\ mgrIdle[Len(mgrIdle)].monitors # mgrMonitors
    /\ \E e \in Edids : mgrIdle[Len(mgrIdle)].monitors[e] # NoRec

\* C29: the candidate method names of a verb are tried in their listed order
\* up to the first one that succeeds; when every candidate of a set call or
\* of a read of the refresh fails, the operation ends in an error
\* (refresh-failed) and no stored feature value changes.
C29_AllCandidatesFailIsError ==
    [][/\ (lastOp'.op = "set_feature_value" /\ calls' # <<>>)
            => /\ \A i \in 1..Len(calls') : calls'[i] = i
               /\ ~lastOp'.ok
                    => /\ Len(calls') = NumSetMethods
                       /\ mgrMonitors' = mgrMonitors
                       /\ mgrIdle'[Len(mgrIdle')].kind = "refresh-failed"
       /\ (lastOp'.op = "load_monitors" /\ lastOp'.ok /\ ~mgrIdle'[Len(mgrIdle')].ok)
            => mgrIdle'[Len(mgrIdle')].kind = "refresh-failed"]_vars

\* C39: when set_feature_value has succeeded with v while a refresh was
\* running on the worker, the monitor list this refresh hands to the main
\* loop, which replaces _monitors, holds v for that feature.
C39_RefreshKeepsWrittenValue ==
    [][(/\ lastOp.op = "set_feature_value"
        /\ lastOp.ok
        /\ mgrFuture = "running"
        /\ lastOp'.op = "load_monitors"
        /\ mgrIdle'[Len(mgrIdle')].kind = "update"
        /\ mgrIdle'[Len(mgrIdle')].monitors[lastOp.edid] # NoRec
        /\ mgrIdle'[Len(mgrIdle')].monitors[lastOp.edid].features[lastOp.code] # NoRec)
       => mgrIdle'[Len(mgrIdle')].monitors[lastOp.edid].features[lastOp.code].value
             = lastOp.value]_vars

\* C40: a refresh() called while a refresh is running starts nothing; the
\* worker hands exactly one result to the main loop, which delivers it with
\* exactly one notification, monitors-changed or refresh-failed; and a
\* refresh started with no result waiting is eventually followed by such a
\* notification.
C40_RefreshTerminatesOnce ==
    /\ [][lastOp'.op = "mgr_refresh"
           => IF mgrFuture = "running"
              THEN sig' = <<>> /\ mgrFuture' = "running" /\ mgrIdle' = mgrIdle
              ELSE sig' = <<Sig("refresh-started", 0, 0)>> /\ mgrFuture' = "running"]_vars
    /\ [][lastOp'.op = "load_monitors"
           => /\ mgrFuture = "running"
              /\ mgrFuture' = "done"
              /\ Len(mgrIdle') = Len(mgrIdle) + 1
              /\ SubSeq(mgrIdle', 1, Len(mgrIdle)) = mgrIdle
              /\ mgrIdle'[Len(mgrIdle')].kind \in {"update", "refresh-failed"}]_vars
    /\ [][lastOp'.op \in {"update", "refresh-failed"}
           => /\ mgrIdle' = Tail(mgrIdle)
              /\ Len(sig') = 1
              /\ sig'[1].name \in {"monitors-changed", "refresh-failed"}]_vars
    /\ (lastOp.op = "mgr_refresh" /\ lastOp.ok /\ mgrIdle = <<>>)
          ~> (lastOp.op \in {"update", "refresh-failed"} /\ Len(sig) = 1)

\* The result of a refresh has just been delivered with monitors-changed
\* while the next refresh is already running.
C40_Witness ==
    /\ lastOp.op = "update"
    /\ sig = <<Sig("monitors-changed", 0, 0)>>
    /\ mgrFuture = "running"
    /\ \E e \in Edids : mgrMonitors[e] # NoRec

====
